---- MODULE Spec2Model ----
(***************************************************************************)
(* Model of the batch pipeline of the voice-command generator.             *)
(*                                                                         *)
(* BatchProcessor.process_batch checks the input file, reads the commands, *)
(* submits one _process_command per command to a                           *)
(* ThreadPoolExecutor(max_workers) and, in the calling thread, folds the   *)
(* futures into the results dict as as_completed yields them. A pool       *)
(* thread runs generate_variations (_call_gpt_api, then the intent filter  *)
(* _validate_variations) and create_audio_files, whose loop synthesizes,   *)
(* converts and saves each variation through FileManager.save_audio_file   *)
(* (local file first, then the upload) and swallows the error of a pass.   *)
(*                                                                         *)
(* Pool threads are anonymous: the state of a running command is kept with *)
(* its future, and the pool is the bound on how many run at once.          *)
(* Strings are sequences of one-character strings, so that str.lower, the  *)
(* substring test of the intent filter and the file-name formatting are    *)
(* computed. Variables marked "history" are not program state: they record *)
(* what happened, for the properties to refer to.                          *)
(***************************************************************************)
EXTENDS Integers, Sequences, FiniteSets, Bags, TLC

\* ------------------------------------------------------------------ bounds

\* Largest number of commands the input processor delivers.
MaxCommands == 3

\* max_workers of the pool (config.get_max_workers()).
MaxWorkers == 2


\* ------------------------------------------------------------ program data

\* file_validator.py: the validator's constants.
MinValidSampleRate == 16000
MidValidSampleRate == 22050
MaxValidSampleRate == 44100
VALID_SAMPLE_RATES == {MinValidSampleRate, MidValidSampleRate, MaxValidSampleRate}
REQUIRED_CHANNELS == 1

\* audio_converter.py: the rate convert_audio asks ffmpeg for.
DEFAULT_SAMPLE_RATE == 16000

\* The texts of the model.
IntentOn == <<"O", "N">>
IntentUp == <<"U", "P">>
English  == <<"e", "n">>
VoiceDefault == <<"d", "e", "f", "a", "u", "l", "t">>
WavSuffix == <<".", "w", "a", "v">>

\* Commands as InputProcessor.validate_row returns them: intent upper-cased,
\* language lower-cased and supported, phrase alphanumeric.
CommandOn == [intent |-> IntentOn, phrase |-> <<"o", "n">>, language |-> English]
CommandUp == [intent |-> IntentUp, phrase |-> <<"u", "p">>, language |-> English]
CommandPool == {CommandOn, CommandUp}

\* The rows of the input file, in order: rows 1 and 3 share intent, phrase
\* and language. process_file delivers the first n of them.
InputRow(k) == IF k % 2 = 1 THEN CommandOn ELSE CommandUp
InputFile(n) == [k \in 1..n |-> InputRow(k)]

\* Texts the variation generator may return: two keep the intent ON, one
\* keeps the intent UP.
TextOn  == <<"o", "n">>
TextOnX == <<"O", "n", "x">>
TextUp  == <<"u", "p">>
VariationTexts == {TextOn, TextOnX, TextUp}

\* The raw lists _call_gpt_api may return: two distinct texts, the same text
\* twice, texts of two intents (ON keeps two, two or one of them, UP keeps
\* none, none or one).
GptResponses ==
    { <<TextOn, TextOnX>>, <<TextOn, TextOn>>, <<TextUp, TextOn>> }

\* The end-to-end example: the command LIGHTS_ON 'turn on the lights' in
\* english, the same phrase under the intent LIGHTS, and the two variations
\* the generator returns for the phrase.
IntentLightsOn == << "L", "I", "G", "H", "T", "S", "_", "O", "N" >>
IntentLights == << "L", "I", "G", "H", "T", "S" >>
LanguageEnglish == << "e", "n", "g", "l", "i", "s", "h" >>
TextTurnOn ==
    << "t", "u", "r", "n", " ", "o", "n", " ", "t" >> \o
    << "h", "e", " ", "l", "i", "g", "h", "t", "s" >>
TextSwitchOn ==
    << "s", "w", "i", "t", "c", "h", " ", "t", "h" >> \o
    << "e", " ", "l", "i", "g", "h", "t", "s", " " >> \o
    << "o", "n" >>
CommandLightsOn ==
    [intent |-> IntentLightsOn, phrase |-> TextTurnOn, language |-> LanguageEnglish]
CommandLights ==
    [intent |-> IntentLights, phrase |-> TextTurnOn, language |-> LanguageEnglish]
ExampleCommands == {CommandLightsOn, CommandLights}
ExampleTexts == {TextTurnOn, TextSwitchOn}
ExampleResponses == { << TextTurnOn, TextSwitchOn >> }

\* -------------------------------------------------------------------- text
\*
\* Python's str methods on texts, which are sequences of characters.

LowerAlphabet ==
    << "a", "b", "c", "d", "e", "f", "g", "h", "i", "j", "k", "l", "m" >> \o
    << "n", "o", "p", "q", "r", "s", "t", "u", "v", "w", "x", "y", "z" >>
UpperAlphabet ==
    << "A", "B", "C", "D", "E", "F", "G", "H", "I", "J", "K", "L", "M" >> \o
    << "N", "O", "P", "Q", "R", "S", "T", "U", "V", "W", "X", "Y", "Z" >>
Digits == {"0", "1", "2", "3", "4", "5", "6", "7", "8", "9"}

Letters(alphabet) == { alphabet[n] : n \in 1..Len(alphabet) }
PlaceIn(alphabet, ch) == CHOOSE n \in 1..Len(alphabet) : alphabet[n] = ch

\* str.lower() and str.upper()
RECURSIVE lower(_)
lower(text) ==
    IF text = <<>> THEN <<>>
    ELSE << IF Head(text) \in Letters(UpperAlphabet)
            THEN LowerAlphabet[PlaceIn(UpperAlphabet, Head(text))]
            ELSE Head(text) >> \o lower(Tail(text))

RECURSIVE upper(_)
upper(text) ==
    IF text = <<>> THEN <<>>
    ELSE << IF Head(text) \in Letters(LowerAlphabet)
            THEN UpperAlphabet[PlaceIn(LowerAlphabet, Head(text))]
            ELSE Head(text) >> \o upper(Tail(text))

\* str.isalnum() and str.isspace() of a character
isalnum(ch) == ch \in Letters(LowerAlphabet) \cup Letters(UpperAlphabet) \cup Digits
isspace(ch) == ch = " "

\* str.strip(chars)
RECURSIVE lstrip(_, _)
lstrip(text, chars) ==
    IF text # <<>> /\ Head(text) \in chars THEN lstrip(Tail(text), chars) ELSE text

RECURSIVE rstrip(_, _)
rstrip(text, chars) ==
    IF text # <<>> /\ text[Len(text)] \in chars
    THEN rstrip(SubSeq(text, 1, Len(text) - 1), chars)
    ELSE text

strip(text, chars) == rstrip(lstrip(text, chars), chars)

\* str.split(sep): the pieces between the separators, empty ones included.
RECURSIVE split(_, _)
split(text, sep) ==
    IF \A n \in 1..Len(text) : text[n] # sep
    THEN << text >>
    ELSE LET n == CHOOSE m \in 1..Len(text) :
                    text[m] = sep /\ \A j \in 1..(m - 1) : text[j] # sep
         IN  << SubSeq(text, 1, n - 1) >> \o split(SubSeq(text, n + 1, Len(text)), sep)

\* sep.join(pieces)
RECURSIVE join(_, _)
join(sep, pieces) ==
    IF pieces = <<>> THEN <<>>
    ELSE IF Len(pieces) = 1 THEN pieces[1]
    ELSE pieces[1] \o sep \o join(sep, Tail(pieces))

\* ------------------------------------------------------------ pure helpers

\* str.lower(), character by character.
LowerChar(ch) ==
    IF ch \in Letters(UpperAlphabet)
    THEN LowerAlphabet[PlaceIn(UpperAlphabet, ch)]
    ELSE ch

Lower(s) == [k \in 1..Len(s) |-> LowerChar(s[k])]

\* Python's `sub in s` on strings.
Contains(sub, s) ==
    \E k \in 0..(Len(s) - Len(sub)) : SubSeq(s, k + 1, k + Len(sub)) = sub

\* [v for v in variations if intent.lower() in v.lower()]
RECURSIVE FilterByIntent(_, _)
FilterByIntent(variations, intent) ==
    IF variations = <<>> THEN <<>>
    ELSE LET rest == FilterByIntent(Tail(variations), intent)
         IN  IF Contains(Lower(intent), Lower(Head(variations)))
             THEN <<Head(variations)>> \o rest
             ELSE rest

_validate_variations(variations, intent) == FilterByIntent(variations, intent)

\* FileManager._generate_file_path: Path(language, intent,
\* f"{variation}_{voice_id or 'default'}.wav").
_generate_file_path(metadata) ==
    << metadata.language, metadata.intent,
       metadata.variation \o <<"_">> \o metadata.voice_id \o WavSuffix >>

\* s3_path = f"{metadata['language']}/{metadata['intent']}/{relative_path.name}"
S3PathOf(metadata) ==
    LET rel == _generate_file_path(metadata)
    IN  << metadata.language, metadata.intent, rel[3] >>

\* ---------------------------------------------------------------- payloads

\* An audio payload: its container, sample rate and channel count.
MonoWav     == [container |-> "wav", rate |-> MidValidSampleRate, channels |-> 1]
StereoWav   == [container |-> "wav", rate |-> MaxValidSampleRate, channels |-> 2]
\* b'audio_data_placeholder'
Placeholder == [container |-> "raw", rate |-> 0, channels |-> 0]

\* _generate_audio(text, language): what the synthesizer may return for a
\* text, when it returns: audio (two-channel for one of the texts), or bytes
\* that are no audio, as the placeholder's are.
_generate_audio(text, language) ==
    IF text = TextOnX THEN {StereoWav} ELSE {MonoWav, Placeholder}

\* FileValidator.validate_wav_format: the bytes parse as WAV, the frame rate
\* is a valid one and the payload is mono.
validate_wav_format(data) ==
    /\ data.container = "wav"
    /\ data.rate \in VALID_SAMPLE_RATES
    /\ data.channels = REQUIRED_CHANNELS

\* convert_audio(..., 'wav'): ffmpeg -ar 16000 -acodec pcm_s16le. The channel
\* count is kept. Bytes that are no audio cannot be converted.
CanConvert(data) == data.container = "wav"
convert_audio(data) ==
    [container |-> "wav", rate |-> DEFAULT_SAMPLE_RATE, channels |-> data.channels]

\* ------------------------------------------------------------------- state

VARIABLES
    pc,          \* where process_batch is: "start", "collect", "returned", "raised"
    commands,    \* the list input_processor.process_file returned
    results,     \* the results dict of process_batch
    future,      \* future_to_command: per command index, the state of its future
                 \* and, while a pool thread runs it, where _process_command is
    local_fs,    \* local files: relative path -> payload
    s3,          \* bucket objects: key -> payload
    writes,      \* history: per path, "never", "once" or "again" (written more than once)
    aggregated,  \* history: per command, how often its result was added to the counters
    outcome,     \* history: per command, how its _process_command ended
    stored,      \* history: commands for which something was written to storage
    exp_variations, \* history: sum of len(variations) over returned commands
    exp_audio,      \* history: sum of len(audio_files) over returned commands
    calls,          \* direct calls of FileManager in progress (a bag: the
                    \* calling threads are anonymous)
    ended,          \* history: the FileManager call that ended last, with
                    \* what it returned
    remote,         \* the bucket behind S3Storage and AWSService, and the
                    \* upload call on it
    path_gen,       \* a call of PathGenerator: its arguments and its result
    input,          \* InputProcessor.process_file: the rows of the file, the
                    \* commands validated so far, and how the call ended
    registry        \* VoiceRegistry: its voice_profiles dict, and the call
                    \* made on it last with what it returned

\* The variables of process_batch and its workers.
batch_vars == << pc, commands, results, future, writes, aggregated, outcome,
                 stored, exp_variations, exp_audio >>

\* The variables of the components that are called outside a batch run.
other_vars == << calls, ended, remote, path_gen, input, registry >>

vars == << pc, commands, results, future, local_fs, s3, writes,
           aggregated, outcome, stored, exp_variations, exp_audio, other_vars >>

CmdIds == 1..Len(commands)

\* The message of the exception the generation call fails with.
GenerationError == "variation generation failed"

\* A submitted work item nobody runs yet. While it runs, i = 0 means
\* generate_variations and i >= 1 the pass of the loop of create_audio_files.
\* synth_raised counts the passes in which _generate_audio raised (history).
PendingFuture ==
    [state |-> "pending", exc |-> "", variations |-> <<>>, i |-> 0,
     audio_files |-> <<>>, synth_raised |-> 0]
RunningFuture == [PendingFuture EXCEPT !.state = "running"]
\* A future as_completed has yielded; nothing reads its result again.
YieldedFuture == [PendingFuture EXCEPT !.state = "yielded"]

AllPaths ==
    { _generate_file_path([language |-> c.language, intent |-> c.intent,
                           variation |-> v, voice_id |-> VoiceDefault])
        : c \in CommandPool, v \in VariationTexts }
    \cup
    { _generate_file_path([language |-> c.language, intent |-> c.intent,
                           variation |-> v, voice_id |-> VoiceDefault])
        : c \in ExampleCommands, v \in ExampleTexts }

\* No file at a path.
NoFile == [container |-> "none", rate |-> 0, channels |-> 0]

\* ------------------------------------------- direct callers of FileManager

\* Largest number of threads that call the FileManager directly.
MaxCallers == 2

\* The audio_data and the metadata the direct callers pass.
CallerPayloads == {MonoWav, StereoWav}
MetadataOn == [language |-> English, intent |-> IntentOn,
               variation |-> TextOn, voice_id |-> VoiceDefault]
MetadataUp == [language |-> English, intent |-> IntentUp,
               variation |-> TextUp, voice_id |-> VoiceDefault]
CallerMetadata == {MetadataOn, MetadataUp}
CallerPaths == { _generate_file_path(md) : md \in CallerMetadata }

\* A call of save_audio_file or delete_audio_file in progress: local_path
\* and s3_path are the method's locals. History: clean says that no other
\* call has touched the local file since this call wrote it, removed that
\* the call has removed a file.
Call(op, data, local_path, s3_path, removed) ==
    [op |-> op, data |-> data, local_path |-> local_path, s3_path |-> s3_path,
     clean |-> TRUE, removed |-> removed]

\* No call has ended yet. Of a call that has, result is what it returned (the
\* two paths, or the listing) and ok the bool delete_audio_file returned.
\* History: clean and removed as above, repeat says that the object already
\* held the call's payload when the call uploaded, intact that the local
\* file and, after the upload, the object held the call's payload when the
\* call ended, listed how often a listing had the key then.
NoCall ==
    [op |-> "none", state |-> "none", result |-> <<>>, ok |-> FALSE,
     clean |-> TRUE, repeat |-> FALSE, intact |-> FALSE, listed |-> 0,
     removed |-> FALSE]

\* No upload call on the bucket yet, and no object in it. In a call, metadata
\* is the audio file's language, intent, variation and voice profile,
\* file_path and body are what the caller passes, key is the Key argument of
\* put_object, attempts counts the calls of put_object (history), and outage
\* is the number of put_object calls the bucket's transient failure lasts.
NoUpload ==
    [state |-> "idle", method |-> "none", metadata |-> <<>>, file_path |-> <<>>,
     body |-> NoFile, key |-> <<>>, attempts |-> 0, outage |-> 0, objects |-> {}]

\* No call of a path function. Of a call, result is what
\* PathGenerator.generate_s3_path returned and file_path what
\* FileManager._generate_file_path returned for the same four values; other
\* is a second four-tuple with its two paths.
NoPathCall ==
    [state |-> "idle", language |-> <<>>, intent |-> <<>>, variation_id |-> <<>>,
     voice_id |-> <<>>, result |-> <<>>, file_path |-> <<>>,
     other |-> <<>>, other_result |-> <<>>, other_file_path |-> <<>>]

\* No call of process_file.
NoInput ==
    [state |-> "idle", rows |-> <<>>, file |-> <<>>, validated_commands |-> <<>>,
     again |-> <<>>]

\* The registry as __init__ makes it, before any profile is in it, and no
\* call made on it.
NoRegistry ==
    [voice_profiles |-> << >>, op |-> "none", returned |-> FALSE]

\* process_batch has not been called.
BatchInit ==
    /\ pc = "start"
    /\ commands = <<>>
    /\ results = [total_commands |-> 0, successful_variations |-> 0,
                  successful_audio_files |-> 0, errors |-> <<>>]
    /\ future = <<>>
    /\ local_fs = [p \in AllPaths |-> NoFile]
    /\ s3 = [p \in AllPaths |-> NoFile]
    /\ writes = [p \in AllPaths |-> "never"]
    /\ aggregated = [c \in 1..MaxCommands |-> 0]
    /\ outcome = [c \in 1..MaxCommands |-> "none"]
    /\ stored = {}
    /\ exp_variations = 0
    /\ exp_audio = 0

\* No direct call of FileManager has been made.
FileManagerInit ==
    /\ calls = EmptyBag
    /\ ended = NoCall

Init ==
    /\ BatchInit
    /\ FileManagerInit
    /\ remote = NoUpload
    /\ path_gen = NoPathCall
    /\ input = NoInput
    /\ registry = NoRegistry

\* ------------------------------------------------------- process_batch

\* Mutant of ValidateFileFails: the file is checked after the commands have
\* been submitted to the executor.
ValidateFileFails_Late ==
    /\ pc \in {"start", "collect"}
    /\ pc' = "raised"
    /\ UNCHANGED << commands, results, future, local_fs, s3, writes,
                    aggregated, outcome, stored, exp_variations, exp_audio >>
    /\ UNCHANGED other_vars

\* if not self.file_manager.validate_file(input_file): raise ValueError
\* (validate_file is the file manager's answer; the tests give both answers.)
ValidateFileFails ==
    /\ pc = "start"
    /\ pc' = "raised"
    /\ UNCHANGED << commands, results, future, local_fs, s3, writes,
                    aggregated, outcome, stored, exp_variations, exp_audio >>
    /\ UNCHANGED other_vars

\* The file is valid and input_processor.process_file raises (the file cannot
\* be read, a column is missing, a cell has no value): nothing catches it,
\* process_batch raises before the results dict and the executor exist.
ProcessFileRaises ==
    /\ pc = "start"
    /\ pc' = "raised"
    /\ UNCHANGED << commands, results, future, local_fs, s3, writes,
                    aggregated, outcome, stored, exp_variations, exp_audio >>
    /\ UNCHANGED other_vars

\* results = {"total_commands": len(commands), ... "errors": []}
InitialResults(cmds) ==
    [total_commands |-> Len(cmds), successful_variations |-> 0,
     successful_audio_files |-> 0, errors |-> <<>>]

\* The file is valid: process_file delivers the commands, the results dict is
\* built and every command is submitted to the executor.
StartBatchWith(files) ==
    /\ pc = "start"
    /\ \E cmds \in files :
        /\ commands' = cmds
        /\ results' = InitialResults(cmds)
        /\ future' = [c \in 1..Len(cmds) |-> PendingFuture]
    /\ pc' = "collect"
    /\ UNCHANGED << local_fs, s3, writes, aggregated, outcome,
                    stored, exp_variations, exp_audio >>
    /\ UNCHANGED other_vars

StartBatch == StartBatchWith({ InputFile(n) : n \in 0..MaxCommands })

\* ------------------------------------------------------- the worker pool

Pending == { c \in CmdIds : future[c].state = "pending" }
\* A work item a pool thread has started and not finished; the thread of a
\* blocked one waits in an external call.
InFlight == { c \in CmdIds : future[c].state \in {"running", "blocked"} }

\* The executor's work queue is FIFO: the next work item is the oldest one.
NextPending == CHOOSE c \in Pending : \A d \in Pending : c <= d

\* Mutant of HasIdleThread: a thread per submitted work item.
HasIdleThread_Unbounded == TRUE

\* ThreadPoolExecutor(max_workers=self.max_workers): the pool has max_workers
\* threads and a thread runs one work item at a time, so a work item starts
\* only while fewer than max_workers are running.
HasIdleThread == Cardinality(InFlight) < MaxWorkers

\* An idle pool thread takes the next submitted command and enters
\* _process_command.
WorkerTake ==
    /\ pc = "collect"
    /\ HasIdleThread
    /\ Pending # {}
    /\ future' = [future EXCEPT ![NextPending] = RunningFuture]
    /\ UNCHANGED << pc, commands, results, local_fs, s3, writes, aggregated,
                    outcome, stored, exp_variations, exp_audio >>
    /\ UNCHANGED other_vars

\* How a returning _process_command ended (history): without a variation
\* that kept the intent, with synthesis raising for every variation, with
\* every variation failing somewhere, with some or with all of them saved.
OutcomeOf(variations, audio_files, synth_raised) ==
    IF variations = <<>> THEN "no_valid"
    ELSE IF synth_raised = Len(variations) THEN "synth_failed"
    ELSE IF audio_files = <<>> THEN "failed_all"
    ELSE IF Len(audio_files) < Len(variations) THEN "partial"
    ELSE "stored_all"

\* _process_command returns (variations, audio_files): the future finishes
\* with that result and the thread is free again.
CommandReturns(c, variations, audio_files, synth_raised) ==
    /\ future' = [future EXCEPT ![c] = [state |-> "finished", exc |-> "",
                                        variations |-> variations, i |-> 0,
                                        audio_files |-> audio_files,
                                        synth_raised |-> 0]]
    /\ outcome' = [outcome EXCEPT ![c] = OutcomeOf(variations, audio_files, synth_raised)]
    /\ exp_variations' = exp_variations + Len(variations)
    /\ exp_audio' = exp_audio + Len(audio_files)

\* Mutant of GenerationFails: the except clause logs the error and
\* generate_variations returns the command's phrase as the only variation.
GenerationFails_GoesOn(c) ==
    /\ future[c].state = "running"
    /\ future[c].i = 0
    /\ future' = [future EXCEPT ![c].variations = << commands[c].phrase >>,
                                ![c].i = 1]
    /\ outcome' = [outcome EXCEPT ![c] = "raised"]
    /\ UNCHANGED << pc, commands, results, local_fs, s3, writes, aggregated,
                    stored, exp_variations, exp_audio >>
    /\ UNCHANGED other_vars

\* generate_variations: _call_gpt_api raises; the except clause logs and
\* re-raises, _process_command lets it through, the future holds the exception.
GenerationFails(c) ==
    /\ future[c].state = "running"
    /\ future[c].i = 0
    /\ future' = [future EXCEPT ![c] = [PendingFuture EXCEPT !.state = "finished",
                                                             !.exc = GenerationError]]
    /\ outcome' = [outcome EXCEPT ![c] = "raised"]
    /\ UNCHANGED << pc, commands, results, local_fs, s3, writes, aggregated,
                    stored, exp_variations, exp_audio >>
    /\ UNCHANGED other_vars

\* generate_variations: _call_gpt_api returns raw variations, which are
\* filtered by _validate_variations; create_audio_files then starts on them
\* (and returns at once when there is none).
GenerateVariationsOf(c, responses) ==
    /\ future[c].state = "running"
    /\ future[c].i = 0
    /\ \E raw \in responses :
        LET valid == _validate_variations(raw, commands[c].intent) IN
        IF valid = <<>>
        THEN CommandReturns(c, valid, <<>>, 0)
        ELSE /\ future' = [future EXCEPT ![c].variations = valid, ![c].i = 1]
             /\ UNCHANGED << outcome, exp_variations, exp_audio >>
    /\ UNCHANGED << pc, commands, results, local_fs, s3, writes, aggregated, stored >>
    /\ UNCHANGED other_vars

GenerateVariations(c) == GenerateVariationsOf(c, GptResponses)

\* ------------------------------------------------- create_audio_files

\* The metadata a variation of command c is saved under.
MetadataOf(c) ==
    [language |-> commands[c].language, intent |-> commands[c].intent,
     variation |-> future[c].variations[future[c].i], voice_id |-> VoiceDefault]

\* Mutant of WriteLocal: the file is opened with 'ab', so that writing to an
\* existing file appends and leaves bytes that are not the payload.
WriteLocal_Append(fs, path, data) ==
    [fs EXCEPT ![path] = IF @ = NoFile THEN data ELSE Placeholder]

\* with open(local_path, 'wb') as f: f.write(audio_data)
WriteLocal(fs, path, data) == [fs EXCEPT ![path] = data]

\* s3_client.upload_file(str(local_path), bucket, s3_path): the object is the
\* content of the local file.
UploadFile(bucket, fs, path, key) == [bucket EXCEPT ![key] = fs[path]]

CountWrite(w, path) ==
    [w EXCEPT ![path] = IF @ = "never" THEN "once" ELSE "again"]

\* Mutant of LoopContinues: a pass that added no pair ends the loop.
LoopContinues_BreaksOnFailure(c, audio_files, synth_raised) ==
    IF future[c].i = Len(future[c].variations) \/ audio_files = future[c].audio_files
    THEN CommandReturns(c, future[c].variations, audio_files, synth_raised)
    ELSE /\ future' = [future EXCEPT ![c].i = @ + 1, ![c].audio_files = audio_files,
                                     ![c].synth_raised = synth_raised]
         /\ UNCHANGED << outcome, exp_variations, exp_audio >>

\* One pass of the for loop is over: the next variation, or the return of
\* create_audio_files and with it of _process_command.
LoopContinues(c, audio_files, synth_raised) ==
    IF future[c].i = Len(future[c].variations)
    THEN CommandReturns(c, future[c].variations, audio_files, synth_raised)
    ELSE /\ future' = [future EXCEPT ![c].i = @ + 1, ![c].audio_files = audio_files,
                                     ![c].synth_raised = synth_raised]
         /\ UNCHANGED << outcome, exp_variations, exp_audio >>

\* Mutant of PassFails: the loop has no except clause, so the exception of a
\* pass ends create_audio_files and _process_command.
PassFails_Propagates(c, in_synthesis) ==
    /\ future' = [future EXCEPT ![c] = [PendingFuture EXCEPT !.state = "finished",
                                                             !.exc = "audio creation failed"]]
    /\ outcome' = [outcome EXCEPT ![c] = "raised"]
    /\ UNCHANGED << exp_variations, exp_audio >>

\* except Exception as e: self.logger.error(...): a pass that raised adds
\* nothing to audio_files and the loop goes on.
PassFails(c, in_synthesis) ==
    LoopContinues(c, future[c].audio_files,
                  future[c].synth_raised + (IF in_synthesis THEN 1 ELSE 0))

\* audio_files.append((local_path, s3_path))
PassSucceeds(c, local_path, s3_path) ==
    LoopContinues(c, Append(future[c].audio_files, [local |-> local_path, s3 |-> s3_path]),
                  future[c].synth_raised)

\* One pass of the loop of create_audio_files over the variations:
\* _generate_audio, convert_audio, file_manager.save_audio_file, each of which
\* may raise; the except clause of the loop logs the error and goes on.
\* The two callees are modelled by what the caller and test_create_audio_files
\* take them to be (bytes to bytes; bytes, intent, variation, language to the
\* two paths). As written, convert_audio(audio_data, 'wav') lacks a required
\* argument of convert_audio(input_path, output_path, target_format) and
\* raises TypeError: that run is the one in which every pass takes the
\* "convert_audio raises" branch.
CreateAudioFile(c) ==
    /\ future[c].state = "running"
    /\ future[c].i >= 1
    /\ LET md   == MetadataOf(c)
           path == _generate_file_path(md)
           key  == S3PathOf(md)
       IN
        \/ \* _generate_audio raises
           /\ PassFails(c, TRUE)
           /\ UNCHANGED << local_fs, s3, writes, stored >>
        \/ \* convert_audio raises
           /\ \E audio_data \in _generate_audio(md.variation, md.language) : TRUE
           /\ PassFails(c, FALSE)
           /\ UNCHANGED << local_fs, s3, writes, stored >>
        \/ \* save_audio_file writes the local file and the upload raises
           /\ \E audio_data \in _generate_audio(md.variation, md.language) :
                /\ CanConvert(audio_data)
                /\ local_fs' = WriteLocal(local_fs, path, convert_audio(audio_data))
           /\ writes' = CountWrite(writes, path)
           /\ stored' = stored \cup {c}
           /\ PassFails(c, FALSE)
           /\ UNCHANGED s3
        \/ \* save_audio_file writes the local file and uploads it
           /\ \E audio_data \in _generate_audio(md.variation, md.language) :
                /\ CanConvert(audio_data)
                /\ local_fs' = WriteLocal(local_fs, path, convert_audio(audio_data))
           /\ s3' = UploadFile(s3, local_fs', path, key)
           /\ writes' = CountWrite(writes, path)
           /\ stored' = stored \cup {c}
           /\ PassSucceeds(c, path, key)
    /\ UNCHANGED << pc, commands, results, aggregated >>
    /\ UNCHANGED other_vars

\* ------------------------------------------ as_completed and the return

\* Mutant of Aggregate: the counters are assigned, not added to.
Aggregate_Overwrites(res, fut) ==
    [res EXCEPT !.successful_variations = Len(fut.variations),
                !.successful_audio_files = Len(fut.audio_files)]

\* results["successful_variations"] += len(variations)
\* results["successful_audio_files"] += len(audio_files)
Aggregate(res, fut) ==
    [res EXCEPT !.successful_variations = @ + Len(fut.variations),
                !.successful_audio_files = @ + Len(fut.audio_files)]

\* Mutant of RecordError: the except clause only logs.
RecordError_LogOnly(res, c, fut) == res

\* results["errors"].append({"command": command, "error": str(e)}); id is the
\* command's place in the list, kept to tell equal commands apart.
RecordError(res, c, fut) ==
    [res EXCEPT !.errors = Append(@, [command |-> commands[c], error |-> fut.exc,
                                      id |-> c])]

\* Mutant of Completed: as_completed yields only the futures that hold a result.
Completed_ReturnedOnly ==
    { c \in CmdIds : future[c].state = "finished" /\ future[c].exc = "" }

\* as_completed yields each future once, when it has finished.
Completed == { c \in CmdIds : future[c].state = "finished" }

\* One pass of the loop over as_completed: future.result() returns the pair
\* or raises the worker's exception.
CollectResult(c) ==
    /\ pc = "collect"
    /\ c \in Completed
    /\ \/ /\ future[c].exc = ""
          /\ results' = Aggregate(results, future[c])
          /\ aggregated' = [aggregated EXCEPT ![c] = @ + 1]
       \/ /\ future[c].exc # ""
          /\ results' = RecordError(results, c, future[c])
          /\ UNCHANGED aggregated
    /\ future' = [future EXCEPT ![c] = YieldedFuture]
    /\ UNCHANGED << pc, commands, local_fs, s3, writes, outcome,
                    stored, exp_variations, exp_audio >>
    /\ UNCHANGED other_vars

\* Mutant of CanReturn: the loop stops once no work item is left in the queue.
CanReturn_QueueEmpty == \A c \in CmdIds : future[c].state # "pending"

\* The loop over as_completed ends when every future has been yielded; the
\* with block then shuts the executor down and process_batch returns results.
CanReturn == \A c \in CmdIds : future[c].state = "yielded"

ReturnBatch ==
    /\ pc = "collect"
    /\ CanReturn
    /\ pc' = "returned"
    /\ UNCHANGED << commands, results, future, local_fs, s3, writes,
                    aggregated, outcome, stored, exp_variations, exp_audio >>
    /\ UNCHANGED other_vars

Next ==
    \/ ValidateFileFails
    \/ ProcessFileRaises
    \/ StartBatch
    \/ WorkerTake
    \/ \E c \in CmdIds : GenerationFails(c)
    \/ \E c \in CmdIds : GenerateVariations(c)
    \/ \E c \in CmdIds : CreateAudioFile(c)
    \/ \E c \in CmdIds : CollectResult(c)
    \/ ReturnBatch

Spec == Init /\ [][Next]_vars

\* A step of a pool thread: the external call it is in returns or raises.
WorkerStep ==
    \E c \in CmdIds :
        GenerationFails(c) \/ GenerateVariations(c) \/ CreateAudioFile(c)

\* The batch under fair scheduling: process_batch itself goes on when it can,
\* the executor hands a queued work item to an idle thread, every call a
\* pool thread makes returns or raises in the end, and as_completed yields a
\* finished future.
FairSpec ==
    /\ Init
    /\ [][Next]_vars
    /\ WF_vars(ValidateFileFails \/ ProcessFileRaises \/ StartBatch)
    /\ WF_vars(WorkerTake)
    /\ WF_vars(WorkerStep)
    /\ WF_vars(\E c \in CmdIds : CollectResult(c))
    /\ WF_vars(ReturnBatch)

\* ------------------------------------------- create_audio_files as written
\*
\* CreateAudioFile takes convert_audio and save_audio_file as their caller
\* does. The calls as they are written do not fit the functions they reach:
\* convert_audio requires three positional arguments and is passed two.

\* audio_converter.py: the parameters of convert_audio without a default.
ConvertAudioRequired == << "input_path", "output_path", "target_format" >>

\* batch_processor.py: convert_audio(audio_data, 'wav')
ConvertAudioPassed == << "audio_data", "wav" >>

\* Python binds the arguments before the body runs and raises TypeError when
\* a required parameter gets none.
ConvertCallRaises == Len(ConvertAudioPassed) < Len(ConvertAudioRequired)

\* One pass of the loop of create_audio_files with the call of convert_audio
\* as written: _generate_audio raises, or it returns and the call of
\* convert_audio raises TypeError; either is caught by the except clause, and
\* save_audio_file is not reached.
CreateAudioFileAsWritten(c) ==
    /\ future[c].state = "running"
    /\ future[c].i >= 1
    /\ \/ PassFails(c, TRUE)
       \/ /\ \E audio_data \in _generate_audio(MetadataOf(c).variation,
                                               MetadataOf(c).language) : TRUE
          /\ ConvertCallRaises
          /\ PassFails(c, FALSE)
    /\ UNCHANGED << local_fs, s3, writes, stored >>
    /\ UNCHANGED << pc, commands, results, aggregated >>
    /\ UNCHANGED other_vars

AsWrittenNext ==
    \/ ValidateFileFails
    \/ ProcessFileRaises
    \/ StartBatch
    \/ WorkerTake
    \/ \E c \in CmdIds : GenerationFails(c)
    \/ \E c \in CmdIds : GenerateVariations(c)
    \/ \E c \in CmdIds : CreateAudioFileAsWritten(c)
    \/ \E c \in CmdIds : CollectResult(c)
    \/ ReturnBatch

AsWrittenSpec == Init /\ [][AsWrittenNext]_vars

\* ------------------------------------------------- the end-to-end example
\*
\* process_batch on an input file of one or two of the example commands, with
\* a generator that returns the two example variations.

ExampleFiles ==
    UNION { [1..n -> ExampleCommands] : n \in 1..MaxWorkers }

StartExample == StartBatchWith(ExampleFiles)

GenerateExample(c) == GenerateVariationsOf(c, ExampleResponses)

ExampleNext ==
    \/ StartExample
    \/ WorkerTake
    \/ \E c \in CmdIds : GenerateExample(c)
    \/ \E c \in CmdIds : CreateAudioFile(c)
    \/ \E c \in CmdIds : CollectResult(c)
    \/ ReturnBatch

ExampleSpec == Init /\ [][ExampleNext]_vars

\* ------------------------------------------- external calls that never answer
\*
\* The calls to the outside (_call_gpt_api, _generate_audio, the upload of
\* save_audio_file) are made without a timeout, future.result() and
\* as_completed are called without one, and no code cancels a work item: a
\* pool thread whose call never answers stays in it.

\* The call command c's thread is in never answers: the generation call, the
\* synthesis call of a pass, or the upload of a pass, which comes after the
\* local file has been written.
CallNeverResponds(c) ==
    /\ future[c].state = "running"
    /\ \/ /\ future[c].i = 0
          /\ UNCHANGED << local_fs, writes, stored >>
       \/ /\ future[c].i >= 1
          /\ UNCHANGED << local_fs, writes, stored >>
       \/ /\ future[c].i >= 1
          /\ LET md   == MetadataOf(c)
                 path == _generate_file_path(md)
             IN  /\ \E audio_data \in _generate_audio(md.variation, md.language) :
                      /\ CanConvert(audio_data)
                      /\ local_fs' = WriteLocal(local_fs, path, convert_audio(audio_data))
                 /\ writes' = CountWrite(writes, path)
                 /\ stored' = stored \cup {c}
    /\ future' = [future EXCEPT ![c].state = "blocked"]
    /\ UNCHANGED << pc, commands, results, s3, aggregated, outcome,
                    exp_variations, exp_audio >>
    /\ UNCHANGED other_vars

TimeoutNext ==
    \/ Next
    \/ \E c \in CmdIds : CallNeverResponds(c)

\* The threads of the process keep running: a step of the program that stays
\* possible is taken. Nothing is assumed of the outside.
TimeoutSpec == Init /\ [][TimeoutNext]_vars /\ WF_vars(Next)

\* ------------------------------------------------------------- FileManager
\*
\* FileManager called directly, by up to MaxCallers threads at once. A method
\* is cut where it touches the file system or the bucket: save_audio_file
\* writes the local file and then uploads it from the file,
\* delete_audio_file unlinks the local file and then deletes the object.

\* Only the FileManager is at work.
BatchIdle == UNCHANGED << batch_vars, remote, path_gen, input, registry >>

\* A thread is free to make a call.
CanCall == BagCardinality(calls) < MaxCallers

Begin(cs, call) == cs (+) SetToBag({call})
Finish(cs, call) == cs (-) SetToBag({call})

\* The calls that have written local file `path` and not yet uploaded it
\* lose their clean mark (history).
Touch(cs, path) ==
    LET Hit(c) == c.op = "save" /\ c.local_path = path /\ c.clean
        keep  == { c \in BagToSet(cs) : ~Hit(c) }
        moved == { [c EXCEPT !.clean = FALSE] : c \in { d \in BagToSet(cs) : Hit(d) } }
    IN  [c \in keep \cup moved |->
            (IF c \in keep THEN cs[c] ELSE 0)
          + (IF c \in moved THEN cs[[c EXCEPT !.clean = TRUE]] ELSE 0)]

\* How often a listing has a key.
Occurrences(listing, key) ==
    Cardinality({ n \in 1..Len(listing) : listing[n] = key })

\* The keys of a set, as a listing has them.
RECURSIVE KeyList(_)
KeyList(keys) ==
    IF keys = {} THEN <<>>
    ELSE LET key == CHOOSE x \in keys : TRUE
         IN  << key >> \o KeyList(keys \ {key})

\* list_audio_files(intent, language): the keys of the objects below
\* f"{language}/{intent}/", one entry of Contents per object.
list_audio_files(bucket, intent, language) ==
    KeyList({ key \in DOMAIN bucket :
                /\ bucket[key] # NoFile
                /\ key[1] = language
                /\ key[2] = intent })

\* save_audio_file(audio_data, metadata), lines 52-62: the paths are computed
\* and audio_data is written to the local file.
SaveWrites ==
    /\ CanCall
    /\ \E audio_data \in CallerPayloads, metadata \in CallerMetadata :
        LET relative_path == _generate_file_path(metadata)
            s3_path == S3PathOf(metadata)
        IN  /\ local_fs' = WriteLocal(local_fs, relative_path, audio_data)
            /\ calls' = Begin(Touch(calls, relative_path),
                              Call("save", audio_data, relative_path, s3_path, FALSE))
    /\ UNCHANGED << s3, ended >>
    /\ BatchIdle

\* s3_client.upload_file(str(local_path), bucket, s3_path) puts the content
\* the local file has now under s3_path, and the call returns the two paths.
SaveUploads(call) ==
    /\ call.op = "save"
    /\ local_fs[call.local_path] # NoFile
    /\ s3' = UploadFile(s3, local_fs, call.local_path, call.s3_path)
    /\ calls' = Finish(calls, call)
    /\ ended' =
         [NoCall EXCEPT
            !.op = "save", !.state = "returned",
            !.result = << call.local_path, call.s3_path >>,
            !.clean = call.clean,
            !.repeat = s3[call.s3_path] = call.data,
            !.intact = /\ local_fs[call.local_path] = call.data
                       /\ s3'[call.s3_path] = call.data,
            !.listed = Occurrences(
                           list_audio_files(s3', call.s3_path[2], call.s3_path[1]),
                           call.s3_path)]
    /\ UNCHANGED local_fs
    /\ BatchIdle

\* Mutant of SaveUploadFails: the local file is removed when the upload fails.
SaveUploadFails_Rollback(call) ==
    /\ call.op = "save"
    /\ local_fs' = [local_fs EXCEPT ![call.local_path] = NoFile]
    /\ calls' = Finish(calls, call)
    /\ ended' = [NoCall EXCEPT
                    !.op = "save", !.state = "raised", !.clean = call.clean,
                    !.intact = local_fs'[call.local_path] = call.data]
    /\ UNCHANGED s3
    /\ BatchIdle

\* s3_client.upload_file raises (the bucket is out of reach, or the local
\* file is gone): nothing catches it, the call raises and returns no paths.
SaveUploadFails(call) ==
    /\ call.op = "save"
    /\ UNCHANGED << local_fs, s3 >>
    /\ calls' = Finish(calls, call)
    /\ ended' = [NoCall EXCEPT
                    !.op = "save", !.state = "raised", !.clean = call.clean,
                    !.intact = local_fs'[call.local_path] = call.data]
    /\ BatchIdle

\* delete_audio_file(file_path), lines 117-123: a file_path relative to the
\* base path is the local path below it and the key; the local file is
\* unlinked when it exists.
DeleteUnlinks ==
    /\ CanCall
    /\ \E file_path \in CallerPaths :
        /\ local_fs' = [local_fs EXCEPT ![file_path] = NoFile]
        /\ calls' = Begin(Touch(calls, file_path),
                          Call("delete", NoFile, file_path, file_path,
                               local_fs[file_path] # NoFile))
    /\ UNCHANGED << s3, ended >>
    /\ BatchIdle

\* s3_client.delete_object(Bucket, Key): the bucket answers with success
\* whether or not there is an object under the key, and the call returns
\* True; or the request raises, and the call returns False.
DeleteObject(call) ==
    /\ call.op = "delete"
    /\ \/ /\ s3' = [s3 EXCEPT ![call.s3_path] = NoFile]
          /\ ended' = [NoCall EXCEPT
                          !.op = "delete", !.state = "returned", !.ok = TRUE,
                          !.removed = call.removed \/ s3[call.s3_path] # NoFile]
       \/ /\ ended' = [NoCall EXCEPT
                          !.op = "delete", !.state = "returned", !.ok = FALSE,
                          !.removed = call.removed]
          /\ UNCHANGED s3
    /\ calls' = Finish(calls, call)
    /\ UNCHANGED local_fs
    /\ BatchIdle

\* A call of list_audio_files: list_objects_v2 answers, or raises.
ListFiles ==
    /\ CanCall
    /\ \E metadata \in CallerMetadata :
        \/ ended' = [NoCall EXCEPT
                        !.op = "list", !.state = "returned",
                        !.result = list_audio_files(s3, metadata.intent,
                                                    metadata.language)]
        \/ ended' = [NoCall EXCEPT !.op = "list", !.state = "raised"]
    /\ UNCHANGED << local_fs, s3, calls >>
    /\ BatchIdle

FileManagerNext ==
    \/ SaveWrites
    \/ \E call \in BagToSet(calls) : SaveUploads(call)
    \/ \E call \in BagToSet(calls) : SaveUploadFails(call)
    \/ DeleteUnlinks
    \/ \E call \in BagToSet(calls) : DeleteObject(call)
    \/ ListFiles

FileManagerSpec == Init /\ [][FileManagerNext]_vars

\* ----------------------------------------------------------- PathGenerator

\* storage_config.py: S3_BUCKET_NAME, 'femtosense-voice-commands'
S3_BUCKET_NAME ==
    << "f", "e", "m", "t", "o", "s", "e", "n", "s", "e", "-" >> \o
    << "v", "o", "i", "c", "e", "-" >> \o
    << "c", "o", "m", "m", "a", "n", "d", "s" >>

\* VALID_PATH_CHARS = re.compile(r'[^a-zA-Z0-9_-]') matches every other character.
IsValidPathChar(ch) == isalnum(ch) \/ ch \in {"_", "-"}

\* VALID_PATH_CHARS.sub('-', component)
RECURSIVE SubInvalidChars(_)
SubInvalidChars(component) ==
    IF component = <<>> THEN <<>>
    ELSE << IF IsValidPathChar(Head(component)) THEN Head(component) ELSE "-" >>
         \o SubInvalidChars(Tail(component))

\* PathGenerator.sanitize_path_component
sanitize_path_component(component) ==
    strip(lower(SubInvalidChars(component)), {"-"})

\* StorageConfig.get_s3_path: the templates of FILE_STRUCTURE are
\* '{bucket_name}', '{language}', '{intent}' and '{phrase_variation}'.
get_s3_path(language, intent, variation) ==
    join(<< "/" >>, << S3_BUCKET_NAME, language, intent, variation >>)

\* PathGenerator.generate_s3_path(voice_command, variation_id, voice_id)
generate_s3_path(language, intent, variation_id, voice_id) ==
    get_s3_path(sanitize_path_component(language),
                sanitize_path_component(intent),
                sanitize_path_component(variation_id))
        \o << "/" >> \o sanitize_path_component(voice_id) \o WavSuffix

\* The components a caller passes: a language, an upper-case intent, a text
\* with a space, and a text without a character that survives sanitizing.
PathComponents ==
    { << "e", "n" >>, << "O", "N" >>, << "a", " ", "b" >>, << "!" >> }

\* The calls of generate_s3_path.
PathCalls ==
    { [NoPathCall EXCEPT !.state = "called", !.language = l, !.intent = i,
                         !.variation_id = v, !.voice_id = w] :
        l \in PathComponents, i \in PathComponents,
        v \in PathComponents, w \in PathComponents }

PathInit ==
    /\ BatchInit
    /\ FileManagerInit
    /\ remote = NoUpload
    /\ path_gen \in PathCalls
    /\ input = NoInput
    /\ registry = NoRegistry

\* generate_s3_path returns; nothing in it raises.
GenerateS3Path ==
    /\ path_gen.state = "called"
    /\ path_gen' = [path_gen EXCEPT
                      !.state = "returned",
                      !.result = generate_s3_path(path_gen.language, path_gen.intent,
                                                  path_gen.variation_id,
                                                  path_gen.voice_id)]
    /\ UNCHANGED << batch_vars, local_fs, s3, calls, ended, remote, input, registry >>

PathNext == GenerateS3Path

PathSpec == PathInit /\ [][PathNext]_vars

\* ------------------------------------------------ two artifacts, two paths
\*
\* The path functions called for two different four-tuples.

\* The values of the tuples: two spellings of a language and of an intent,
\* and variations and voice ids with and without an underscore.
PairLanguages  == { << "e", "n" >>, << "E", "N" >> }
PairIntents    == { << "O", "N" >>, << "o", "n" >> }
PairVariations == { << "a" >>, << "a", "_", "b" >> }
PairVoices     == { << "c" >>, << "b", "_", "c" >> }
PairTuples ==
    { << l, i, v, w >> : l \in PairLanguages, i \in PairIntents,
                         v \in PairVariations, w \in PairVoices }

\* The metadata dict of a tuple, as save_audio_file gets it.
MetadataOfTuple(tuple) ==
    [language |-> tuple[1], intent |-> tuple[2], variation |-> tuple[3],
     voice_id |-> tuple[4]]

PathPairInit ==
    /\ BatchInit
    /\ FileManagerInit
    /\ remote = NoUpload
    /\ \E tuple \in PairTuples :
         path_gen = [NoPathCall EXCEPT !.state = "called",
                                       !.language = tuple[1], !.intent = tuple[2],
                                       !.variation_id = tuple[3], !.voice_id = tuple[4]]
    /\ input = NoInput
    /\ registry = NoRegistry

\* The paths of the first tuple and of another one: generate_s3_path and
\* _generate_file_path are called for both.
GeneratePathsOfOther ==
    /\ path_gen.state = "returned"
    /\ LET own == << path_gen.language, path_gen.intent, path_gen.variation_id,
                     path_gen.voice_id >>
       IN  \E other \in PairTuples \ {own} :
             path_gen' = [path_gen EXCEPT
                 !.state = "compared",
                 !.file_path = _generate_file_path(MetadataOfTuple(own)),
                 !.other = other,
                 !.other_result = generate_s3_path(other[1], other[2], other[3], other[4]),
                 !.other_file_path = _generate_file_path(MetadataOfTuple(other))]
    /\ UNCHANGED << batch_vars, local_fs, s3, calls, ended, remote, input, registry >>

PathPairNext == GenerateS3Path \/ GeneratePathsOfOther

PathPairSpec == PathPairInit /\ [][PathPairNext]_vars

\* ------------------------------------------------- S3Storage and AWSService

MaxOutage == 2

\* The relative path AudioFile.get_file_path forms, of sanitized metadata:
\* language, intent, variation and voice profile joined with '/', with the
\* file format as suffix.
CanonicalPath(metadata) ==
    join(<< "/" >>, << sanitize_path_component(metadata[1]),
                       sanitize_path_component(metadata[2]),
                       sanitize_path_component(metadata[3]),
                       sanitize_path_component(metadata[4]) >>) \o WavSuffix

\* The metadata of the audio files handed to the bucket.
UploadMetadata ==
    { << l, i, v, w >> :
        l \in { << "e", "n" >>, << "k", "o" >> },
        i \in { << "o", "n" >>, << "O", "N" >> },
        v \in { << "v", "1" >>, << "a", " ", "b" >> },
        w \in { << "m", "1" >> } }

\* The calls of S3Storage.upload_file(audio_file) and of
\* AWSService.upload_audio_file(file_path, audio_data, metadata).
UploadCalls ==
    { [NoUpload EXCEPT !.state = "called", !.method = "S3Storage",
                       !.metadata = m, !.body = b, !.outage = o] :
        m \in UploadMetadata, b \in CallerPayloads, o \in 0..MaxOutage }
    \cup
    { [NoUpload EXCEPT !.state = "called", !.method = "AWSService",
                       !.metadata = m, !.file_path = CanonicalPath(m),
                       !.body = b, !.outage = o] :
        m \in UploadMetadata, b \in CallerPayloads, o \in 0..MaxOutage }

RemoteInit ==
    /\ BatchInit
    /\ FileManagerInit
    /\ remote \in UploadCalls
    /\ path_gen = NoPathCall
    /\ input = NoInput
    /\ registry = NoRegistry

\* s3_client.put_object(Key=key, Body=body), called once: it raises
\* ClientError while the outage lasts and stores the object otherwise.
put_object(call, key) ==
    IF call.outage > call.attempts
    THEN [call EXCEPT !.state = "raised", !.key = key, !.attempts = @ + 1]
    ELSE [call EXCEPT !.state = "returned", !.key = key, !.attempts = @ + 1,
                      !.objects = { o \in @ : o.key # key }
                                     \cup { [key |-> key, body |-> call.body] }]

RemoteIdle == UNCHANGED << batch_vars, local_fs, s3, calls, ended, path_gen, input, registry >>

\* S3Storage.upload_file: the key is get_s3_path of the metadata as it is,
\* then the voice profile and the file format; ClientError is raised again.
upload_file ==
    /\ remote.state = "called"
    /\ remote.method = "S3Storage"
    /\ LET s3_path   == get_s3_path(remote.metadata[1], remote.metadata[2],
                                    remote.metadata[3])
           file_name == remote.metadata[4] \o WavSuffix
           s3_key    == s3_path \o << "/" >> \o file_name
       IN  remote' = put_object(remote, s3_key)
    /\ RemoteIdle

\* AWSService.upload_audio_file: the key is file_path; ClientError becomes
\* FileSystemError.
upload_audio_file ==
    /\ remote.state = "called"
    /\ remote.method = "AWSService"
    /\ remote' = put_object(remote, remote.file_path)
    /\ RemoteIdle

RemoteNext == upload_file \/ upload_audio_file

RemoteSpec == RemoteInit /\ [][RemoteNext]_vars

\* ---------------------------------------------------------- InputProcessor

MaxRows == 2

\* app_config.py: SUPPORTED_LANGUAGES
SUPPORTED_LANGUAGES ==
    { << "k", "o", "r", "e", "a", "n" >>,
      << "e", "n", "g", "l", "i", "s", "h" >>,
      << "j", "a", "p", "a", "n", "e", "s", "e" >> }

\* The value pandas gives a cell without a value: the float nan, which is
\* not a str and has none of its methods.
NaN == << "nan" >>

\* str.split() without a separator: the runs between whitespace.
RECURSIVE split_whitespace(_)
split_whitespace(text) ==
    LET rest == lstrip(text, {" "})
    IN  IF rest = <<>> THEN <<>>
        ELSE IF \A n \in 1..Len(rest) : ~isspace(rest[n])
        THEN << rest >>
        ELSE LET n == CHOOSE m \in 1..Len(rest) :
                        isspace(rest[m]) /\ \A j \in 1..(m - 1) : ~isspace(rest[j])
             IN  << SubSeq(rest, 1, n - 1) >>
                     \o split_whitespace(SubSeq(rest, n + 1, Len(rest)))

\* InputProcessor._sanitize_phrase
_sanitize_phrase(phrase) ==
    LET sanitized == join(<< " " >>, split_whitespace(phrase))
    IN  SelectSeq(sanitized, LAMBDA char : isalnum(char) \/ isspace(char))

\* InputProcessor.map_intent
map_intent(phrase, intent_column) == upper(strip(intent_column, {" "}))

\* No command: what validate_row yields when it raises.
NoCommand == [intent |-> <<>>, phrase |-> <<>>, language |-> <<>>]

\* InputProcessor.validate_row: the error it raises, "none" when it returns,
\* and the command it returns. A method of str called on nan raises
\* AttributeError.
validate_row(row) ==
    IF row.intent = NaN \/ row.language = NaN \/ row.phrase = NaN
    THEN [raised |-> "AttributeError", command |-> NoCommand]
    ELSE LET intent   == map_intent(row.phrase, row.intent)
             language == lower(row.language)
             phrase   == _sanitize_phrase(row.phrase)
         IN  IF language \notin SUPPORTED_LANGUAGES
             THEN [raised |-> "ValidationError", command |-> NoCommand]
             ELSE IF intent = <<>> \/ phrase = <<>>
             THEN [raised |-> "ValidationError", command |-> NoCommand]
             ELSE [raised |-> "none",
                   command |-> [intent |-> intent, phrase |-> phrase,
                                language |-> language]]

\* The rows of the input files: one already in the validated form, one that
\* validation changes, rows with an unsupported language and with a phrase
\* of punctuation only, and rows with a cell without a value.
RowPlain    == [intent |-> << "O", "N" >>, phrase |-> << "a", " ", "b" >>,
                language |-> << "e", "n", "g", "l", "i", "s", "h" >>]
RowRaw      == [intent |-> << " ", "o", "n" >>, phrase |-> << "a", " ", "-", " ", "b" >>,
                language |-> << "E", "n", "g", "l", "i", "s", "h" >>]
RowFrench   == [RowPlain EXCEPT !.language = << "f", "r", "e", "n", "c", "h" >>]
RowBang     == [RowPlain EXCEPT !.phrase = << "!" >>]
RowBangs    == [RowPlain EXCEPT !.phrase = << "!", " ", "!" >>]
RowNoIntent == [RowPlain EXCEPT !.intent = NaN]
RowNoPhrase == [RowPlain EXCEPT !.phrase = NaN]
RowNoLanguage == [RowPlain EXCEPT !.language = NaN]
RowPool ==
    { RowPlain, RowRaw, RowFrench, RowBang, RowBangs,
      RowNoIntent, RowNoPhrase, RowNoLanguage }

\* The input files: readable, with the required columns and some rows.
InputFiles ==
    UNION { [1..n -> RowPool] : n \in 1..MaxRows }

InputInit ==
    /\ BatchInit
    /\ FileManagerInit
    /\ remote = NoUpload
    /\ path_gen = NoPathCall
    /\ \E file \in InputFiles :
         input = [NoInput EXCEPT !.state = "reading", !.file = file, !.rows = file]
    /\ registry = NoRegistry

InputIdle == UNCHANGED << batch_vars, local_fs, s3, calls, ended, remote, path_gen,
                        registry >>

\* process_file, one pass of its loop: a validated row is appended.
AppendRow ==
    /\ input.state = "reading"
    /\ input.rows # <<>>
    /\ validate_row(Head(input.rows)).raised = "none"
    /\ input' = [input EXCEPT
                   !.rows = Tail(@),
                   !.validated_commands =
                       Append(@, validate_row(Head(input.rows)).command)]
    /\ InputIdle

\* process_file, one pass of its loop: ValidationError is caught and the row
\* skipped.
SkipRow ==
    /\ input.state = "reading"
    /\ input.rows # <<>>
    /\ validate_row(Head(input.rows)).raised = "ValidationError"
    /\ input' = [input EXCEPT !.rows = Tail(@)]
    /\ InputIdle

\* process_file, one pass of its loop: any other error leaves the loop and
\* process_file; nothing is returned.
RowRaises ==
    /\ input.state = "reading"
    /\ input.rows # <<>>
    /\ validate_row(Head(input.rows)).raised = "AttributeError"
    /\ input' = [input EXCEPT !.state = "raised"]
    /\ InputIdle

\* process_file returns validated_commands after the last row.
ReturnCommands ==
    /\ input.state = "reading"
    /\ input.rows = <<>>
    /\ input' = [input EXCEPT !.state = "returned"]
    /\ InputIdle

\* The caller passes each returned command to validate_row as a row.
RECURSIVE ValidateEach(_)
ValidateEach(rows) ==
    IF rows = <<>> THEN <<>>
    ELSE << validate_row(Head(rows)) >> \o ValidateEach(Tail(rows))

ValidateAgain ==
    /\ input.state = "returned"
    /\ input' = [input EXCEPT !.state = "validated again",
                              !.again = ValidateEach(input.validated_commands)]
    /\ InputIdle

InputNext ==
    \/ AppendRow
    \/ SkipRow
    \/ RowRaises
    \/ ReturnCommands
    \/ ValidateAgain

InputSpec == InputInit /\ [][InputNext]_vars

\* ------------------------------------------------------------ VoiceRegistry

\* The ids the callers use: two of profiles, one of no profile.
VoiceIds == { "english-us-Voice2", "english-uk-NewVoice", "non-existent-voice" }

\* The age categories a profile is updated between.
AgeCategories == { "adult", "senior" }

\* The VoiceProfile objects the callers pass: an id and the attributes, of
\* which age_category stands for all that an update changes.
VoiceProfiles == [id : VoiceIds, age_category : AgeCategories]

\* self.voice_profiles[key] = profile
SetItem(voice_profiles, key, profile) ==
    [k \in DOMAIN voice_profiles \cup {key} |->
        IF k = key THEN profile ELSE voice_profiles[k]]

\* del self.voice_profiles[key]
DelItem(voice_profiles, key) ==
    [k \in DOMAIN voice_profiles \ {key} |-> voice_profiles[k]]

\* add_voice_profile(profile): False when profile.id is a key already,
\* otherwise the profile is stored under its id.
AddVoiceProfile ==
    /\ \E profile \in VoiceProfiles :
         IF profile.id \in DOMAIN registry.voice_profiles
         THEN registry' = [registry EXCEPT !.op = "add", !.returned = FALSE]
         ELSE registry' = [voice_profiles |->
                               SetItem(registry.voice_profiles, profile.id, profile),
                           op |-> "add", returned |-> TRUE]
    /\ UNCHANGED << batch_vars, local_fs, s3, calls, ended, remote, path_gen, input >>

\* remove_voice_profile(voice_id): False when voice_id is no key, otherwise
\* the key is deleted.
RemoveVoiceProfile ==
    /\ \E voice_id \in VoiceIds :
         IF voice_id \notin DOMAIN registry.voice_profiles
         THEN registry' = [registry EXCEPT !.op = "remove", !.returned = FALSE]
         ELSE registry' = [voice_profiles |-> DelItem(registry.voice_profiles, voice_id),
                           op |-> "remove", returned |-> TRUE]
    /\ UNCHANGED << batch_vars, local_fs, s3, calls, ended, remote, path_gen, input >>

\* update_voice_profile(voice_id, updated_profile): False when voice_id is no
\* key, otherwise updated_profile is stored under voice_id, whatever its id.
UpdateVoiceProfile ==
    /\ \E voice_id \in VoiceIds, updated_profile \in VoiceProfiles :
         IF voice_id \notin DOMAIN registry.voice_profiles
         THEN registry' = [registry EXCEPT !.op = "update", !.returned = FALSE]
         ELSE registry' = [voice_profiles |->
                               SetItem(registry.voice_profiles, voice_id, updated_profile),
                           op |-> "update", returned |-> TRUE]
    /\ UNCHANGED << batch_vars, local_fs, s3, calls, ended, remote, path_gen, input >>

RegistryNext == AddVoiceProfile \/ RemoveVoiceProfile \/ UpdateVoiceProfile

RegistrySpec == Init /\ [][RegistryNext]_vars

\* ------------------------------------------------------------- the claims

\* The error entries of the results that refer to command c.
ErrorsOf(c) == SelectSeq(results.errors, LAMBDA e : e.id = c)

\* Commands whose _process_command has raised, and has returned.
Raised == { c \in CmdIds : outcome[c] = "raised" }
Returned == { c \in CmdIds : outcome[c] \notin {"none", "raised"} }

\* C1: at no time is a command aggregated and recorded as an error, or either
\* twice; when process_batch has returned, every command has exactly one of
\* the two outcomes and no command is queued or still run by a worker.
C1_ExactlyOneOutcome ==
    /\ \A c \in CmdIds : aggregated[c] + Len(ErrorsOf(c)) <= 1
    /\ pc = "returned" =>
         \A c \in CmdIds : /\ aggregated[c] + Len(ErrorsOf(c)) = 1
                           /\ future[c].state \notin {"pending", "running"}

C1_Witness ==
    /\ pc = "returned"
    /\ Len(commands) = MaxCommands
    /\ \E c, d \in CmdIds : aggregated[c] = 1 /\ Len(ErrorsOf(d)) = 1

\* C2: process_batch raises only before any command has run; when it has
\* returned, every command whose _process_command raised has exactly one
\* error entry, holding the command and the exception's message, and every
\* other command was aggregated into the counters.
C2_RaisingCommandsIsolated ==
    /\ pc = "raised" => \A c \in 1..MaxCommands : outcome[c] = "none"
    /\ pc = "returned" =>
         /\ \A c \in Raised :
              /\ ErrorsOf(c) = << [command |-> commands[c], error |-> GenerationError,
                                   id |-> c] >>
              /\ aggregated[c] = 0
         /\ \A c \in CmdIds \ Raised : aggregated[c] = 1 /\ ErrorsOf(c) = <<>>
         /\ Len(results.errors) = Cardinality(Raised)

C2_Witness ==
    /\ pc = "returned"
    /\ Cardinality(Raised) >= 2
    /\ Returned # {}

\* C3: the number of commands a worker has started and not finished never
\* exceeds max_workers.
C3_InFlightBounded == Cardinality(InFlight) <= MaxWorkers

C3_Witness == Cardinality(InFlight) = MaxWorkers /\ Pending # {}

\* C4: when process_batch has returned, total_commands is the number of
\* commands and the two counters are the sums of len(variations) and of
\* len(audio_files) over the commands whose processing returned.
C4_CountersAreSums ==
    pc = "returned" =>
        /\ results.total_commands = Len(commands)
        /\ results.successful_variations = exp_variations
        /\ results.successful_audio_files = exp_audio

C4_Witness ==
    /\ pc = "returned"
    /\ Cardinality(Returned) >= 2
    /\ exp_audio >= 2
    /\ exp_variations > exp_audio

\* C5 (as claimed): when process_batch has returned, a command for which the
\* synthesis raised for every one of its variations has exactly one error
\* entry.
C5_Claim ==
    pc = "returned" =>
        \A c \in CmdIds : outcome[c] = "synth_failed" => Len(ErrorsOf(c)) = 1

\* C6 (as claimed): when process_batch has returned, a command none of whose
\* variations passed the intent filter has nothing stored and exactly one
\* error entry, with reason NoValidVariations.
C6_Claim ==
    pc = "returned" =>
        \A c \in CmdIds : outcome[c] = "no_valid" =>
            /\ c \notin stored
            /\ ErrorsOf(c) = << [command |-> commands[c], error |-> "NoValidVariations",
                                 id |-> c] >>

\* C7 (as claimed): when process_batch has returned, every command with a
\* variation that failed in synthesis, conversion or storage has an entry in
\* the errors of the result, and no command raised because of such a failure.
C7_Claim ==
    pc = "returned" =>
        \A c \in CmdIds :
            outcome[c] \in {"synth_failed", "failed_all", "partial"} => ErrorsOf(c) # <<>>

C11_Claim ==
    (ended.op = "save" /\ ended.state = "returned") => ended.intact

\* C12 (as claimed): a batch run whose commands are with the workers
\* eventually returns its result, also when an external call made for a
\* command never answers.
C12_Claim == (pc = "collect") ~> (pc = "returned")


\* C14: a call of save_audio_file whose upload failed has raised and returned
\* no paths, and the local file it wrote is still there, holding its payload
\* unless another call has touched the file since.
C14_LocalRetainedOnUploadFailure ==
    (ended.op = "save" /\ ended.state = "raised") =>
        /\ ended.result = <<>>
        /\ ended.clean => ended.intact

C14_Witness ==
    /\ ended.op = "save" /\ ended.state = "raised"
    /\ ended.clean /\ ended.intact
    /\ \E p \in CallerPaths : local_fs[p] # NoFile /\ s3[p] = NoFile

\* C15: when a call of save_audio_file finds its payload already stored under
\* its key, as a call with the same path and payload leaves it, and no other
\* call touches its file, then at its return the local file and the object
\* hold the payload and a listing has the key exactly once.
C15_PutTwiceIsPutOnce ==
    (ended.op = "save" /\ ended.state = "returned" /\ ended.clean /\ ended.repeat) =>
        /\ ended.intact
        /\ ended.listed = 1

C15_Witness ==
    /\ ended.op = "save" /\ ended.state = "returned"
    /\ ended.clean /\ ended.repeat /\ ended.intact /\ ended.listed = 1
    /\ local_fs[ended.result[1]] = s3[ended.result[2]]

\* C16 (as claimed): delete_audio_file returns True only when it has removed
\* a local file or an object; for a path that is in neither it returns False.
C16_Claim ==
    (ended.op = "delete" /\ ended.state = "returned" /\ ended.ok) => ended.removed

\* The shape ^[a-z0-9_-]+/[a-z0-9_-]+/[a-z0-9_-]+/[a-z0-9_-]+\.wav$ of a
\* canonical relative path.
IsCanonicalName(text) ==
    /\ text # <<>>
    /\ \A n \in 1..Len(text) :
         text[n] \in Letters(LowerAlphabet) \cup Digits \cup {"_", "-"}

MatchesCanonicalShape(path) ==
    LET parts == split(path, "/")
        name  == parts[Len(parts)]
        stem  == SubSeq(name, 1, Len(name) - Len(WavSuffix))
    IN  /\ Len(parts) = Len(<< "language", "intent", "variation", "voice" >>)
        /\ \A n \in 1..(Len(parts) - 1) : IsCanonicalName(parts[n])
        /\ Len(name) > Len(WavSuffix)
        /\ name = stem \o WavSuffix
        /\ IsCanonicalName(stem)

\* C18 (as claimed): a call of path generation whose four components are all
\* non-empty after sanitizing returns a path of the canonical shape, and a
\* call with a component that is empty after sanitizing raises and returns
\* no path.
C18_Claim ==
    path_gen.state \in {"returned", "raised"} =>
        IF \A component \in { path_gen.language, path_gen.intent,
                              path_gen.variation_id, path_gen.voice_id } :
               sanitize_path_component(component) # <<>>
        THEN path_gen.state = "returned" /\ MatchesCanonicalShape(path_gen.result)
        ELSE path_gen.state = "raised" /\ path_gen.result = <<>>

\* C13 (as claimed): a put whose transient failure clears before the first
\* retry succeeds; the failure of a put is not surfaced to the caller
\* before the put has been tried again.
C13_Claim ==
    (remote.state \in {"returned", "raised"} /\ remote.outage <= 1) =>
        /\ remote.state = "returned"
        /\ remote.attempts = remote.outage + 1

\* C17 (as claimed): the key under which S3Storage.upload_file stores an
\* audio file is the canonical relative path of its sanitized metadata,
\* language/intent/variation/voice.wav, and nothing else.
C17_Claim ==
    (remote.state = "returned" /\ remote.method = "S3Storage") =>
        /\ remote.key = CanonicalPath(remote.metadata)
        /\ \E o \in remote.objects : o.key = CanonicalPath(remote.metadata)

\* C19 (as claimed): every command validate_row returned is accepted when it
\* is validated again as a row, and the command that yields is equal to it.
C19_Claim ==
    input.state = "validated again" =>
        \A n \in 1..Len(input.validated_commands) :
            /\ input.again[n].raised = "none"
            /\ input.again[n].command = input.validated_commands[n]

\* The commands of the rows of a file that validate_row accepts, in the
\* order of the rows.
RECURSIVE AcceptedCommands(_)
AcceptedCommands(rows) ==
    IF rows = <<>> THEN <<>>
    ELSE (IF validate_row(Head(rows)).raised = "none"
          THEN << validate_row(Head(rows)).command >> ELSE <<>>)
         \o AcceptedCommands(Tail(rows))

\* C20 (as claimed): process_file of a file with a row that has no value
\* for intent, phrase or language does not raise; it returns the commands
\* of the other, valid rows in the order of the file.
C20_Claim ==
    (/\ input.state \in {"returned", "raised"}
     /\ \E n \in 1..Len(input.file) :
            NaN \in { input.file[n].intent, input.file[n].phrase,
                      input.file[n].language }) =>
        /\ input.state = "returned"
        /\ input.validated_commands = AcceptedCommands(input.file)

\* C21 (as claimed): every command process_file has validated has an intent
\* that is not empty, trimmed and upper-cased, a lower-cased language of the
\* supported set, and a phrase of alphanumeric characters and spaces only
\* with at least one alphanumeric character.
C21_Claim ==
    \A n \in 1..Len(input.validated_commands) :
        LET command == input.validated_commands[n] IN
        /\ command.intent # <<>>
        /\ strip(command.intent, {" "}) = command.intent
        /\ upper(command.intent) = command.intent
        /\ lower(command.language) = command.language
        /\ command.language \in SUPPORTED_LANGUAGES
        /\ \A k \in 1..Len(command.phrase) :
               isalnum(command.phrase[k]) \/ isspace(command.phrase[k])
        /\ \E k \in 1..Len(command.phrase) : isalnum(command.phrase[k])

PathsBelow(store, language, intent) ==
    { p \in AllPaths : store[p] # NoFile /\ p[1] = language /\ p[2] = intent }

\* C23 (as claimed): when process_batch has returned for the single command
\* LIGHTS_ON 'turn on the lights' in english, the generator having returned
\* the two variations and no synthesis, conversion or save having failed,
\* the result counts one command, two variations and two audio files, has no
\* error, and the bucket and the local files hold exactly two paths of that
\* language and intent.
C23_Claim ==
    (/\ pc = "returned"
     /\ commands = << CommandLightsOn >>
     /\ outcome[1] \notin {"raised", "synth_failed", "failed_all", "partial"}) =>
        /\ results = [total_commands |-> 1, successful_variations |-> 2,
                      successful_audio_files |-> 2, errors |-> <<>>]
        /\ Cardinality(PathsBelow(s3, LanguageEnglish, IntentLightsOn)) = 2
        /\ Cardinality(PathsBelow(local_fs, LanguageEnglish, IntentLightsOn)) = 2

\* The lists generate_variations may return for a command: a response of the
\* generator, passed through the intent filter.
GeneratedFor(command) ==
    { _validate_variations(raw, command.intent) : raw \in GptResponses }

\* C24: within a command, generation and the intent filter come before
\* synthesis, and the synthesis of a variation before its storage. A worker
\* enters the loop of create_audio_files only from generate_variations, with
\* the filtered list it returned; a synthesis call or a write for a command
\* is made only from within that loop, and what is written is the converted
\* output of the synthesis of that variation; a command whose generation
\* raised has made no synthesis call and written nothing.
C24_GenerationThenSynthesisThenStorage ==
    /\ [](\A c \in CmdIds :
            /\ outcome[c] = "raised" =>
                 /\ c \notin stored
                 /\ future[c].audio_files = <<>>
                 /\ future[c].synth_raised = 0
                 /\ future[c].i = 0
            /\ future[c].i = 0 =>
                 (future[c].state \in {"pending", "running"} => c \notin stored))
    /\ [][\A c \in CmdIds :
            /\ (future[c].i = 0 /\ future'[c].i >= 1) =>
                 /\ future[c].state = "running"
                 /\ future'[c].variations \in GeneratedFor(commands[c])
                 /\ future'[c].variations # <<>>
            /\ (\/ c \in stored' \ stored
                \/ future'[c].synth_raised > future[c].synth_raised
                \/ Len(future'[c].audio_files) > Len(future[c].audio_files)) =>
                 /\ future[c].state = "running"
                 /\ future[c].i >= 1
            /\ (/\ future[c].state = "running"
                /\ future[c].i >= 1
                /\ c \in stored' \ stored) =>
                 \E audio_data \in _generate_audio(MetadataOf(c).variation,
                                                   MetadataOf(c).language) :
                     local_fs'[_generate_file_path(MetadataOf(c))] = convert_audio(audio_data)
       ]_vars

C24_Witness ==
    \E c, d \in CmdIds :
        /\ c \in stored
        /\ outcome[c] \in {"partial", "stored_all"}
        /\ outcome[d] = "raised"
        /\ d \notin stored

\* The pair save_audio_file returns for variation k of a running command c.
PairOf(c, k) ==
    LET md == [language |-> commands[c].language, intent |-> commands[c].intent,
               variation |-> future[c].variations[k], voice_id |-> VoiceDefault]
    IN  [local |-> _generate_file_path(md), s3 |-> S3PathOf(md)]

C26_Claim ==
    \A c \in CmdIds :
        (/\ future[c].state = "running"
         /\ future[c].i >= 1
         /\ future[c].synth_raised = 0
         /\ c \notin stored) =>
            /\ Len(future[c].audio_files) = future[c].i - 1
            /\ \A k \in 1..Len(future[c].audio_files) :
                   future[c].audio_files[k] = PairOf(c, k)

\* C27: under fair scheduling and with calls that return or raise, a batch
\* of any number of commands, none included, whose work items were submitted
\* is returned by process_batch in the end, all its futures yielded.
C27_BatchReturns ==
    (pc = "collect" /\ Len(commands) \in 0..MaxCommands) ~>
        (/\ pc = "returned"
         /\ \A c \in CmdIds : future[c].state = "yielded")

C27_Witness ==
    /\ pc = "returned"
    /\ Len(commands) = MaxCommands
    /\ MaxCommands > MaxWorkers
    /\ Raised # {}
    /\ stored # {}
    /\ \A c \in CmdIds : future[c].state = "yielded"

\* C28 (as claimed): the paths of two different tuples of language, intent,
\* variation and voice differ, those of PathGenerator.generate_s3_path and
\* those of FileManager._generate_file_path.
C28_Claim ==
    path_gen.state = "compared" =>
        /\ path_gen.result # path_gen.other_result
        /\ path_gen.file_path # path_gen.other_file_path

\* C29 (as claimed): a call of delete_audio_file that returned False has
\* removed nothing, neither the local file nor the object.
C29_Claim ==
    (ended.op = "delete" /\ ended.state = "returned" /\ ~ended.ok) => ~ended.removed

\* C30 (as claimed): whatever calls of add_voice_profile, remove_voice_profile
\* and update_voice_profile were made, every key of voice_profiles maps to a
\* profile whose id is that key, and a call that returns False leaves
\* voice_profiles as it was.
C30_Claim ==
    /\ [](\A key \in DOMAIN registry.voice_profiles :
            registry.voice_profiles[key].id = key)
    /\ [][(registry' # registry /\ ~registry'.returned)
            => registry'.voice_profiles = registry.voice_profiles]_vars

====
